---- MODULE Spec2Model ----
(***************************************************************************)
(* The Kanban board store of src/src/App.tsx: the useKanbanStore hook, the *)
(* localStorage round trip (getInitialState / the persistence effect) and  *)
(* the part of the render that touches the store's arrays.                 *)
(*                                                                         *)
(* React's scheduling is modelled as it is: an operation only enqueues an  *)
(* updater (setState with a function); a render folds the queued updaters  *)
(* over the committed state, in call order, and commits the result; the    *)
(* effect of useEffect(..., [state]) runs once after each commit whose     *)
(* state object differs from the previous one, and before the next render. *)
(* An exception thrown by the render or by the effect is not caught by any *)
(* error boundary of App.tsx, so React unmounts the tree.                  *)
(***************************************************************************)
EXTENDS Integers, Sequences, FiniteSets, TLC

\* ------------------------------------------------------------------ bounds
\* Date.now() at the first page load (milliseconds).
Now0 == 10000000
\* How many milliseconds the clock advances.
MaxTicks == 1
\* How many events (calls of store operations, page reloads) one behaviour has.
MaxEvents == 2

\* --------------------------------------------------------------- seed data
\* (the accented letters of the source's Portuguese literals are written
\* without their accents; no operation of the store reads a letter of them,
\* and the search terms of the model have none of these letters)
HourMs == 3600000
HalfHourMs == 1800000
TenMinutesMs == 600000
TwoHoursMs == 7200000

STORAGE_KEY == "kanban-board-state"

INITIAL_LISTS ==
  << [id |-> "list-1", title |-> "A Fazer", colorVar |-> "--color-list-red", order |-> 0],
     [id |-> "list-2", title |-> "Em Progresso", colorVar |-> "--color-list-blue", order |-> 1],
     [id |-> "list-3", title |-> "Concluido", colorVar |-> "--color-list-green", order |-> 2] >>

\* INITIAL_CARDS is evaluated when the module is loaded, at time t.
INITIAL_CARDS(t) ==
  << [id |-> "card-1", listId |-> "list-1", title |-> "Criar Arquitetura do Projeto",
      description |-> "Definir o layout do Board e os componentes principais (Lista, Cartao, Modal).",
      createdAt |-> t - HourMs],
     [id |-> "card-2", listId |-> "list-1", title |-> "Implementar Persistencia",
      description |-> "Configurar o salvamento e carregamento dos dados no localStorage.",
      createdAt |-> t - HalfHourMs],
     [id |-> "card-3", listId |-> "list-2", title |-> "Desenvolver Drag & Drop",
      description |-> "Aplicar a logica de D&D para mover cartoes entre as colunas.",
      createdAt |-> t - TenMinutesMs],
     [id |-> "card-4", listId |-> "list-3", title |-> "Configurar Tema Escuro/Claro",
      description |-> "Criar o seletor de tema e aplicar estilos responsivos.",
      createdAt |-> t - TwoHoursMs] >>

\* The fallback of getInitialState.
SeedState(t) ==
  [lists |-> INITIAL_LISTS, cards |-> INITIAL_CARDS(t), theme |-> "light", searchTerm |-> ""]

\* ------------------------------------------------------------------- JSON
\* A JSON text is modelled as its sequence of lexical tokens: punctuation,
\* string literals and number literals.
Tok(k, s, n) == [k |-> k, s |-> s, n |-> n]
Punct(c) == Tok(c, "", 0)
StrTok(s) == Tok("str", s, 0)
NumTok(n) == Tok("num", "", n)

RECURSIVE JoinComma(_)
\* The token sequences of `parts`, separated by commas.
JoinComma(parts) ==
  IF parts = <<>> THEN <<>>
  ELSE IF Len(parts) = 1 THEN parts[1]
  ELSE parts[1] \o <<Punct(",")>> \o JoinComma(Tail(parts))

\* "key":value
Member(key, valueToks) == <<StrTok(key), Punct(":")>> \o valueToks

StringifyObject(members) == <<Punct("{")>> \o JoinComma(members) \o <<Punct("}")>>

StringifyArray(items) == <<Punct("[")>> \o JoinComma(items) \o <<Punct("]")>>

\* JSON.stringify of an IList: own properties in insertion order.
StringifyList(l) ==
  StringifyObject(<< Member("id", <<StrTok(l.id)>>),
                     Member("title", <<StrTok(l.title)>>),
                     Member("colorVar", <<StrTok(l.colorVar)>>),
                     Member("order", <<NumTok(l.order)>>) >>)

\* JSON.stringify of an ICard.
StringifyCard(c) ==
  StringifyObject(<< Member("id", <<StrTok(c.id)>>),
                     Member("listId", <<StrTok(c.listId)>>),
                     Member("title", <<StrTok(c.title)>>),
                     Member("description", <<StrTok(c.description)>>),
                     Member("createdAt", <<NumTok(c.createdAt)>>) >>)

\* A mutant: the search term is left out of the serialised record.
StringifyStateNoSearchTerm(st) ==
  StringifyObject(<< Member("lists", StringifyArray([i \in 1..Len(st.lists) |-> StringifyList(st.lists[i])])),
                     Member("cards", StringifyArray([i \in 1..Len(st.cards) |-> StringifyCard(st.cards[i])])),
                     Member("theme", <<StrTok(st.theme)>>) >>)

\* JSON.stringify(state) of the persistence effect.
StringifyState(st) ==
  StringifyObject(<< Member("lists", StringifyArray([i \in 1..Len(st.lists) |-> StringifyList(st.lists[i])])),
                     Member("cards", StringifyArray([i \in 1..Len(st.cards) |-> StringifyCard(st.cards[i])])),
                     Member("theme", <<StrTok(st.theme)>>),
                     Member("searchTerm", <<StrTok(st.searchTerm)>>) >>)

ParseFail(i) == [ok |-> FALSE, val |-> <<>>, next |-> i]
ParseOk(v, i) == [ok |-> TRUE, val |-> v, next |-> i]
IsTok(t, i, k) == i <= Len(t) /\ t[i].k = k

RECURSIVE ParseValue(_, _), ParseElements(_, _, _), ParseMembers(_, _, _)

\* A JSON value starting at token i of t.
ParseValue(t, i) ==
  IF i > Len(t) THEN ParseFail(i)
  ELSE IF t[i].k = "str" THEN ParseOk(t[i].s, i + 1)
  ELSE IF t[i].k = "num" THEN ParseOk(t[i].n, i + 1)
  ELSE IF t[i].k = "[" THEN
    IF IsTok(t, i + 1, "]") THEN ParseOk(<<>>, i + 2) ELSE ParseElements(t, i + 1, <<>>)
  ELSE IF t[i].k = "{" THEN
    IF IsTok(t, i + 1, "}") THEN ParseOk(<<>>, i + 2) ELSE ParseMembers(t, i + 1, <<>>)
  ELSE ParseFail(i)

\* The elements of an array after its "[" (or after a comma), `acc` read so far.
ParseElements(t, i, acc) ==
  LET v == ParseValue(t, i) IN
  IF ~v.ok THEN ParseFail(i)
  ELSE IF IsTok(t, v.next, ",") THEN ParseElements(t, v.next + 1, Append(acc, v.val))
  ELSE IF IsTok(t, v.next, "]") THEN ParseOk(Append(acc, v.val), v.next + 1)
  ELSE ParseFail(v.next)

\* The members of an object after its "{" (or after a comma); a repeated key
\* takes its last value.
ParseMembers(t, i, acc) ==
  IF ~(IsTok(t, i, "str") /\ IsTok(t, i + 1, ":")) THEN ParseFail(i)
  ELSE
    LET v == ParseValue(t, i + 2) IN
    IF ~v.ok THEN ParseFail(i)
    ELSE
      LET acc2 == (t[i].s :> v.val) @@ acc IN
      IF IsTok(t, v.next, ",") THEN ParseMembers(t, v.next + 1, acc2)
      ELSE IF IsTok(t, v.next, "}") THEN ParseOk(acc2, v.next + 1)
      ELSE ParseFail(v.next)

\* JSON.parse(text): ok = FALSE stands for the SyntaxError it throws.
JSONParse(t) ==
  LET v == ParseValue(t, 1) IN
  IF v.ok /\ v.next = Len(t) + 1 THEN v ELSE ParseFail(v.next)

\* ------------------------------------------------------------ localStorage
\* The item under STORAGE_KEY: <<>> when the key is absent (getItem returns
\* null), <<text>> when it is present.
NoItem == <<>>
Item(text) == <<text>>

\* A mutant: no try/catch around JSON.parse, whatever was read is returned.
getInitialStateNoCatch(item, up, t) ==
  IF ~up THEN SeedState(t)
  ELSE IF item = NoItem THEN SeedState(t)
  ELSE IF item[1] = <<>> THEN SeedState(t)
  ELSE JSONParse(item[1]).val

\* getInitialState at time t. `up` is FALSE when localStorage.getItem throws.
getInitialState(item, up, t) ==
  IF ~up THEN SeedState(t)
  ELSE IF item = NoItem THEN SeedState(t)
  ELSE IF item[1] = <<>> THEN SeedState(t)
  ELSE LET r == JSONParse(item[1]) IN
       IF r.ok THEN r.val ELSE SeedState(t)

\* An older board left under the key by an earlier session or edited by
\* hand: its lists are not stored in ascending order of `order`.
StoredBoard ==
  [lists |-> << [id |-> "list-2", title |-> "Em Progresso", colorVar |-> "--color-list-blue", order |-> 1],
                [id |-> "list-1", title |-> "A Fazer", colorVar |-> "--color-list-red", order |-> 0] >>,
   cards |-> << [id |-> "card-3", listId |-> "list-2", title |-> "Desenvolver Drag & Drop",
                 description |-> "", createdAt |-> Now0 - TenMinutesMs] >>,
   theme |-> "dark", searchTerm |-> ""]

\* What the key may hold when the page is first opened: nothing, the empty
\* string, a truncated text, a text that parses but is no board ("{}"), or a
\* board.
InitialItems ==
  { NoItem,
    Item(<<>>),
    Item(<<Punct("{"), StrTok("lists"), Punct(":"), Punct("[")>>),
    Item(<<Punct("{"), Punct("}")>>),
    Item(StringifyState(StoredBoard)) }

\* ------------------------------------------------------------- the render
RECURSIVE InsertByOrder(_, _)
\* l put into the sorted sequence s after every element whose order is <= its
\* own.
InsertByOrder(s, l) ==
  IF s = <<>> THEN <<l>>
  ELSE IF s[Len(s)].order <= l.order THEN Append(s, l)
  ELSE Append(InsertByOrder(SubSeq(s, 1, Len(s) - 1), l), s[Len(s)])

RECURSIVE SortByOrder(_)
\* lists.sort((a, b) => a.order - b.order): stable, ascending, in place.
SortByOrder(ls) ==
  IF ls = <<>> THEN <<>>
  ELSE InsertByOrder(SortByOrder(SubSeq(ls, 1, Len(ls) - 1)), ls[Len(ls)])

\* The render throws a TypeError when the adopted state is no board:
\* state.lists.length in the hook, cards.filter in BoardView.
RenderThrows(st) == ~({"lists", "cards"} \subseteq DOMAIN st)

\* cards.sort((a, b) => b.createdAt - a.createdAt): the newest card first,
\* cards of one time in the order they had.
InsertByCreatedAt(sorted, card) ==
  LET older == {i \in 1..Len(sorted) : sorted[i].createdAt < card.createdAt}
      at == IF older = {} THEN Len(sorted) + 1
            ELSE CHOOSE i \in older : \A k \in older : i <= k
  IN SubSeq(sorted, 1, at - 1) \o <<card>> \o SubSeq(sorted, at, Len(sorted))

RECURSIVE SortByCreatedAtDesc(_)
SortByCreatedAtDesc(cs) ==
  IF cs = <<>> THEN <<>>
  ELSE InsertByCreatedAt(SortByCreatedAtDesc(SubSeq(cs, 1, Len(cs) - 1)), cs[Len(cs)])

\* A mutant: the sort of the cards is done on the array of the state, as the
\* sort of the lists is.
RenderedSortingCards(st) ==
  IF RenderThrows(st) THEN st
  ELSE [st EXCEPT !.lists = SortByOrder(@), !.cards = SortByCreatedAtDesc(@)]

\* The state object after a render of the board page: BoardView sorts the
\* array state.lists itself.  The board page is the page shown at the mount;
\* in every later render the lists are in ascending order already, so the
\* settings page, which renders no BoardView, leaves the same state.
Rendered(st) == IF RenderThrows(st) THEN st ELSE [st EXCEPT !.lists = SortByOrder(@)]

\* ------------------------------------------------------ the search of a board
\* String.prototype.toLowerCase and String.prototype.includes on the ASCII
\* letters, which are the letters of the texts and terms of this model.
UpperCaseLetters == "ABCDEFGHIJKLMNOPQRSTUVWXYZ"
LowerCaseLetters == "abcdefghijklmnopqrstuvwxyz"

UpperToLower ==
  [c \in {SubSeq(UpperCaseLetters, n, n) : n \in 1..Len(UpperCaseLetters)} |->
     LET n == CHOOSE k \in 1..Len(UpperCaseLetters) : SubSeq(UpperCaseLetters, k, k) = c
     IN SubSeq(LowerCaseLetters, n, n)]

RECURSIVE toLowerCase(_)
toLowerCase(s) ==
  IF s = "" THEN ""
  ELSE LET c == SubSeq(s, 1, 1)
       IN (IF c \in DOMAIN UpperToLower THEN UpperToLower[c] ELSE c)
            \o toLowerCase(SubSeq(s, 2, Len(s)))

includes(s, searchString) ==
  \E i \in 0..(Len(s) - Len(searchString)) :
    SubSeq(s, i + 1, i + Len(searchString)) = searchString

RECURSIVE trimStart(_)
trimStart(s) ==
  IF s # "" /\ SubSeq(s, 1, 1) = " " THEN trimStart(SubSeq(s, 2, Len(s))) ELSE s

RECURSIVE trimEnd(_)
trimEnd(s) ==
  IF s # "" /\ SubSeq(s, Len(s), Len(s)) = " " THEN trimEnd(SubSeq(s, 1, Len(s) - 1)) ELSE s

\* String.prototype.trim, on texts whose white space is spaces.
trim(s) == trimEnd(trimStart(s))

\* A mutant: only the title is searched.
filteredCardsByTitle(st) ==
  SelectSeq(st.cards, LAMBDA card :
    includes(toLowerCase(card.title), toLowerCase(st.searchTerm)))

\* BoardView's filteredCards: the cards whose title or description holds the
\* search term, both in lower case.
filteredCards(st) ==
  SelectSeq(st.cards, LAMBDA card :
    \/ includes(toLowerCase(card.title), toLowerCase(st.searchTerm))
    \/ includes(toLowerCase(card.description), toLowerCase(st.searchTerm)))


\* The cards a ListView shows: the filtered cards of the list, in a new
\* array, which the ListView sorts.
DisplayedCards(st, listId) ==
  SortByCreatedAtDesc(SelectSeq(filteredCards(st), LAMBDA card : card.listId = listId))

\* ------------------------------------------------------------ the updaters
\* A mutant: the test of the id is inverted.
setCardListMovingTheOthers(prevState, cardId, newListId) ==
  [prevState EXCEPT !.cards =
     [i \in 1..Len(@) |-> IF @[i].id # cardId THEN [@[i] EXCEPT !.listId = newListId] ELSE @[i]]]

\* A mutant: a moved copy of the card is added and the card itself is kept.
setCardListAddingCopy(prevState, cardId, newListId) ==
  [prevState EXCEPT !.cards =
     @ \o [i \in 1..Len(SelectSeq(@, LAMBDA card : card.id = cardId)) |->
            [SelectSeq(@, LAMBDA card : card.id = cardId)[i] EXCEPT !.listId = newListId]]]

\* A mutant: the card is taken out and put back at the end of the array.
setCardListMovingToEnd(prevState, cardId, newListId) ==
  [prevState EXCEPT !.cards =
     SelectSeq(@, LAMBDA card : card.id # cardId)
     \o [i \in 1..Len(SelectSeq(@, LAMBDA card : card.id = cardId)) |->
          [SelectSeq(@, LAMBDA card : card.id = cardId)[i] EXCEPT !.listId = newListId]]]

\* A mutant: a card that is not found is put into the array.
setCardListUpserting(prevState, cardId, newListId) ==
  IF \E i \in 1..Len(prevState.cards) : prevState.cards[i].id = cardId
  THEN [prevState EXCEPT !.cards =
          [i \in 1..Len(@) |-> IF @[i].id = cardId THEN [@[i] EXCEPT !.listId = newListId] ELSE @[i]]]
  ELSE [prevState EXCEPT !.cards =
          Append(@, [id |-> cardId, listId |-> newListId, title |-> "", description |-> "",
                     createdAt |-> 0])]

\* The function each operation passes to setState, applied to prevState.
setCardListUpdater(prevState, cardId, newListId) ==
  [prevState EXCEPT !.cards =
     [i \in 1..Len(@) |-> IF @[i].id = cardId THEN [@[i] EXCEPT !.listId = newListId] ELSE @[i]]]

\* A mutant: the new card is put before the others.
addCardPrepending(prevState, newCard) ==
  [prevState EXCEPT !.cards = <<newCard>> \o @]

addCardUpdater(prevState, newCard) ==
  [prevState EXCEPT !.cards = Append(@, newCard)]

\* A mutant: the test of the id is left out, every card gets the new text.
updateCardUpdatingAll(prevState, cardId, newTitle, newDescription) ==
  [prevState EXCEPT !.cards =
     [i \in 1..Len(@) |-> [@[i] EXCEPT !.title = newTitle, !.description = newDescription]]]

updateCardUpdater(prevState, cardId, newTitle, newDescription) ==
  [prevState EXCEPT !.cards =
     [i \in 1..Len(@) |-> IF @[i].id = cardId
                          THEN [@[i] EXCEPT !.title = newTitle, !.description = newDescription]
                          ELSE @[i]]]

\* A mutant: the filter keeps the matching cards instead of the others.
deleteCardKeepingMatch(prevState, cardId) ==
  [prevState EXCEPT !.cards = SelectSeq(@, LAMBDA card : card.id = cardId)]

\* A mutant: the card is removed by its index, cards.splice(findIndex(...), 1),
\* where an index of -1 (no card has the id) removes the last card.
deleteCardSplicingIndex(prevState, cardId) ==
  LET found == {i \in 1..Len(prevState.cards) : prevState.cards[i].id = cardId}
      at == IF found = {} THEN Len(prevState.cards)
            ELSE CHOOSE i \in found : \A k \in found : i <= k
  IN [prevState EXCEPT !.cards = SubSeq(@, 1, at - 1) \o SubSeq(@, at + 1, Len(@))]

deleteCardUpdater(prevState, cardId) ==
  [prevState EXCEPT !.cards = SelectSeq(@, LAMBDA card : card.id # cardId)]

\* A mutant: the new list is put first and the lists after it move one place.
addListAtFront(prevState, newList) ==
  [prevState EXCEPT !.lists =
     <<[newList EXCEPT !.order = 0]>> \o
       [i \in 1..Len(@) |-> [@[i] EXCEPT !.order = @ + 1]]]

addListUpdater(prevState, newList) ==
  [prevState EXCEPT !.lists = Append(@, newList)]

\* A mutant: both branches of the conditional give dark.
toggleThemeAlwaysDark(prevState) ==
  [prevState EXCEPT !.theme = IF @ = "light" THEN "dark" ELSE "dark"]

toggleThemeUpdater(prevState) ==
  [prevState EXCEPT !.theme = IF @ = "light" THEN "dark" ELSE "light"]

\* A mutant: the term is trimmed before it is stored.
setSearchTermTrimming(prevState, term) ==
  [prevState EXCEPT !.searchTerm = trim(term)]

setSearchTermUpdater(prevState, term) ==
  [prevState EXCEPT !.searchTerm = term]

\* One queued update applied to a state.
ApplyUpdate(u, st) ==
  CASE u.op = "setCardList" -> setCardListUpdater(st, u.cardId, u.newListId)
    [] u.op = "addCard" -> addCardUpdater(st, u.newCard)
    [] u.op = "updateCard" -> updateCardUpdater(st, u.cardId, u.newTitle, u.newDescription)
    [] u.op = "deleteCard" -> deleteCardUpdater(st, u.cardId)
    [] u.op = "addList" -> addListUpdater(st, u.newList)
    [] u.op = "toggleTheme" -> toggleThemeUpdater(st)
    [] u.op = "setSearchTerm" -> setSearchTermUpdater(st, u.term)

\* A mutant: each operation computes the next state from the state of its
\* closure, setState({ ...state, ... }), so the last call of a batch wins.
ApplyQueueOnCommitted(q, st) ==
  IF q = <<>> THEN st ELSE ApplyUpdate(q[Len(q)], st)

RECURSIVE ApplyQueue(_, _)
\* React processes the queued updates in the order of the calls.
ApplyQueue(q, st) ==
  IF q = <<>> THEN st ELSE ApplyQueue(Tail(q), ApplyUpdate(Head(q), st))

\* `card-${Date.now()}` and `list-${Date.now()}`
CardIdAt(t) == "card-" \o ToString(t)
ListIdAt(t) == "list-" \o ToString(t)

\* ---------------------------------------------------------------- the state
VARIABLES
  state,          \* the committed state of useState<IKanbanState>
  queue,          \* the updates queued by setState since the last render
  effectPending,  \* the effect of the last commit has not run yet
  storage,        \* the localStorage item under STORAGE_KEY
  rootClass,      \* document.documentElement.className
  now,            \* Date.now() when it was last read
  phase,          \* "mounted", or "crashed" once React has unmounted the tree
  events,         \* operations called and page reloads so far
  commits,        \* commits of this page load (the mount is the first)
  effects,        \* runs of the persistence effect in this page load
  lastWrite,      \* outcome of the last localStorage.setItem: "none", "ok", "failed"
  prev,           \* the state before the last commit (at the mount: as loaded)
  batch,          \* the updates the last commit applied
  readThrew,      \* localStorage.getItem threw when the page was loaded
  drag            \* the drag gesture: its step, the 'cardId' data, the list hovered

vars == <<state, queue, effectPending, storage, rootClass, now, phase, events,
          commits, effects, lastWrite, prev, batch, readThrew, drag>>

\* No gesture is under way: no data is carried and no list is hovered.
NoDrag == [step |-> "idle", cardId |-> "", over |-> ""]

\* The arguments the operations are called with.
\* card-3 is a seed card; the other id names a card only once addCard has been
\* called in the first millisecond. list-0 names no list.
CardIdInputs == {"card-3", CardIdAt(Now0)}
ListIdInputs == {"list-2", "list-3"}
NewCardListIdInputs == {"list-3", "list-0"}
SourceListIdInputs == {"null", "list-1", "list-0"}
TitleInputs == {"Revisar"}
DescriptionInputs == {"Adicione uma descricao aqui."}
TermInputs == {"", " DRAG "}

\* useState(getInitialState) and the first render, at time t.
Mount(item, up, t) ==
  LET loaded == getInitialState(item, up, t) IN
  /\ state = Rendered(loaded)
  /\ prev = loaded
  /\ readThrew = ~up
  /\ phase = IF RenderThrows(loaded) THEN "crashed" ELSE "mounted"
  /\ effectPending = ~RenderThrows(loaded)
  /\ commits = IF RenderThrows(loaded) THEN 0 ELSE 1
  /\ queue = <<>>
  /\ batch = <<>>
  /\ effects = 0
  /\ lastWrite = "none"
  /\ rootClass = ""

Init ==
  /\ storage \in InitialItems
  /\ now = Now0
  /\ events = 0
  /\ drag = NoDrag
  /\ \E up \in BOOLEAN : Mount(storage, up, Now0)

\* Date.now() when it is read: the clock has not moved since the last
\* reading, or it has.
ClockReadings == {t \in {now, now + 1} : t <= Now0 + MaxTicks}

\* setState(updater), called at time t from an event handler: the update is
\* queued; nothing else changes until the next render.  A handler runs to
\* completion and React renders, commits and flushes the effect of a discrete
\* event before the next event is handled, so a handler finds no effect
\* pending (the effect of the mount is taken to run before the first event).
Enqueue(u, t) ==
  /\ phase = "mounted"
  /\ ~effectPending
  /\ events < MaxEvents
  /\ queue' = Append(queue, u)
  /\ events' = events + 1
  /\ now' = t
  /\ UNCHANGED <<state, effectPending, storage, rootClass, phase,
                 commits, effects, lastWrite, prev, batch, readThrew>>

setCardList(cardId, newListId) ==
  Enqueue([op |-> "setCardList", cardId |-> cardId, newListId |-> newListId], now)

addCard(listId, title, description) ==
  \E t \in ClockReadings :
    LET newCard == [id |-> CardIdAt(t), listId |-> listId, title |-> title,
                    description |-> description, createdAt |-> t]
    IN Enqueue([op |-> "addCard", newCard |-> newCard], t)

updateCard(cardId, newTitle, newDescription) ==
  Enqueue([op |-> "updateCard", cardId |-> cardId, newTitle |-> newTitle,
           newDescription |-> newDescription], now)

deleteCard(cardId) ==
  Enqueue([op |-> "deleteCard", cardId |-> cardId], now)

\* The callback is rebuilt at a render (its dependency is state.lists.length),
\* so the order it assigns is the length of the lists of the last render.
addList(title) ==
  \E t \in ClockReadings :
    LET newList == [id |-> ListIdAt(t), title |-> title,
                    colorVar |-> "--color-list-yellow", order |-> Len(state.lists)]
    IN Enqueue([op |-> "addList", newList |-> newList], t)

toggleTheme ==
  Enqueue([op |-> "toggleTheme"], now)

setSearchTerm(term) ==
  Enqueue([op |-> "setSearchTerm", term |-> term], now)

\* A mutant: the arguments after the first are passed on one place too early.
reorderCardsPassingSource(sourceListId, cardId, targetListId) ==
  setCardList(cardId, IF sourceListId = "null" THEN targetListId ELSE sourceListId)

reorderCards(sourceListId, cardId, targetListId) ==
  setCardList(cardId, targetListId)

\* A mutant: the effect is scheduled only when the committed state differs in
\* value from the one before.
RenderSkippingEqualState ==
  /\ phase = "mounted"
  /\ queue # <<>>
  /\ ~effectPending
  /\ state' = Rendered(ApplyQueue(queue, state))
  /\ prev' = state
  /\ batch' = queue
  /\ queue' = <<>>
  /\ effectPending' = (state' # state)
  /\ commits' = commits + 1
  /\ UNCHANGED <<storage, rootClass, now, phase, events, effects, lastWrite, readThrew,
                 drag>>

\* React renders App with the queued updates applied and commits the result.
\* The pending effect of the previous commit is flushed before a render.
Render ==
  /\ phase = "mounted"
  /\ queue # <<>>
  /\ ~effectPending
  /\ state' = Rendered(ApplyQueue(queue, state))
  /\ prev' = state
  /\ batch' = queue
  /\ queue' = <<>>
  /\ effectPending' = TRUE
  /\ commits' = commits + 1
  /\ UNCHANGED <<storage, rootClass, now, phase, events, effects, lastWrite, readThrew,
                 drag>>

\* A mutant: the effect writes the item and leaves the class of the root alone.
PersistEffectWithoutTheme ==
  /\ phase = "mounted"
  /\ effectPending
  /\ storage' = Item(StringifyState(state))
  /\ effectPending' = FALSE
  /\ effects' = effects + 1
  /\ lastWrite' = "ok"
  /\ UNCHANGED <<state, queue, rootClass, now, phase, events, commits, prev, batch,
                 readThrew, drag>>

\* A mutant: the effect serializes the state of an older closure, the one
\* before the commit.
PersistEffectOfOlderState ==
  /\ phase = "mounted"
  /\ effectPending
  /\ storage' = Item(StringifyState(prev))
  /\ rootClass' = state.theme
  /\ effectPending' = FALSE
  /\ effects' = effects + 1
  /\ lastWrite' = "ok"
  /\ UNCHANGED <<state, queue, now, phase, events, commits, prev, batch, readThrew,
                 drag>>

\* The effect of useEffect(..., [state]): setItem succeeds.
PersistEffect ==
  /\ phase = "mounted"
  /\ effectPending
  /\ storage' = Item(StringifyState(state))
  /\ rootClass' = state.theme
  /\ effectPending' = FALSE
  /\ effects' = effects + 1
  /\ lastWrite' = "ok"
  /\ UNCHANGED <<state, queue, now, phase, events, commits, prev, batch, readThrew,
                 drag>>

\* The effect when localStorage.setItem throws (quota exceeded, storage
\* unavailable): the statement after it is not reached and nothing catches the
\* exception, so React unmounts the tree.
PersistEffectThrows ==
  /\ phase = "mounted"
  /\ effectPending
  /\ phase' = "crashed"
  /\ effectPending' = FALSE
  /\ effects' = effects + 1
  /\ lastWrite' = "failed"
  /\ UNCHANGED <<state, queue, storage, rootClass, now, events, commits,
                 prev, batch, readThrew, drag>>

\* The page is closed and opened again, between two events: the module is
\* loaded anew, at time t, and the store is initialised from the item.
Reload ==
  /\ events < MaxEvents
  /\ queue = <<>>
  /\ ~effectPending
  /\ events' = events + 1
  /\ \E up \in BOOLEAN, t \in ClockReadings :
       LET loaded == getInitialState(storage, up, t) IN
       /\ state' = Rendered(loaded)
       /\ prev' = loaded
       /\ readThrew' = ~up
       /\ phase' = IF RenderThrows(loaded) THEN "crashed" ELSE "mounted"
       /\ effectPending' = ~RenderThrows(loaded)
       /\ commits' = IF RenderThrows(loaded) THEN 0 ELSE 1
       /\ now' = t
  /\ queue' = <<>>
  /\ batch' = <<>>
  /\ effects' = 0
  /\ lastWrite' = "none"
  /\ rootClass' = ""
  /\ drag' = NoDrag
  /\ UNCHANGED storage

Next ==
  \/ \E cardId \in CardIdInputs, newListId \in ListIdInputs :
       setCardList(cardId, newListId) /\ UNCHANGED drag
  \/ \E listId \in NewCardListIdInputs, title \in TitleInputs, description \in DescriptionInputs :
       addCard(listId, title, description) /\ UNCHANGED drag
  \/ \E cardId \in CardIdInputs, newTitle \in TitleInputs, newDescription \in DescriptionInputs :
       updateCard(cardId, newTitle, newDescription) /\ UNCHANGED drag
  \/ \E cardId \in CardIdInputs : deleteCard(cardId) /\ UNCHANGED drag
  \/ \E title \in TitleInputs : addList(title) /\ UNCHANGED drag
  \/ toggleTheme /\ UNCHANGED drag
  \/ \E term \in TermInputs : setSearchTerm(term) /\ UNCHANGED drag
  \/ \E sourceListId \in SourceListIdInputs, cardId \in CardIdInputs, targetListId \in ListIdInputs :
       reorderCards(sourceListId, cardId, targetListId) /\ UNCHANGED drag
  \/ Render
  \/ PersistEffect
  \/ PersistEffectThrows
  \/ Reload

Spec == Init /\ [][Next]_vars

\* --------------------------------------------------- the search, on its own
\* A session on the stored board in which cards are written, rewritten and
\* searched: the texts and the terms are chosen so that a term is found in the
\* title only, in the description only, in neither, in another case than
\* the text's, is the whole text, or is longer than the text.
SearchTitleInputs == {"Buy milk", "Clean"}
SearchDescriptionInputs == {"", "Get MILK today"}
SearchTermInputs == {"", "milk", "MILK", "Clean", "cleaner", "TODAY", "drag & d"}

InitSearch ==
  /\ storage = Item(StringifyState(StoredBoard))
  /\ now = Now0
  /\ events = 0
  /\ drag = NoDrag
  /\ Mount(storage, TRUE, Now0)

NextSearch ==
  \/ \E title \in SearchTitleInputs : addCard("list-2", title, "") /\ UNCHANGED drag
  \/ \E newTitle \in SearchTitleInputs, newDescription \in SearchDescriptionInputs :
       updateCard("card-3", newTitle, newDescription) /\ UNCHANGED drag
  \/ \E term \in SearchTermInputs : setSearchTerm(term) /\ UNCHANGED drag
  \/ Render
  \/ PersistEffect

SpecSearch == InitSearch /\ [][NextSearch]_vars

\* ------------------------------------------------------- the drag of a card
\* The gesture goes idle -> dragging -> hoveringList -> dropped or cancelled.
\* drag.cardId is the 'cardId' data of the dataTransfer ("" when the drag began
\* outside the board and carries no such data), drag.over the list that has
\* the class drag-over-list.  The handlers run on a committed tree.
DragCardIdInputs == {"card-1", "card-3"}
DropListIdInputs == {"list-1", "list-3"}

AtRest == phase = "mounted" /\ queue = <<>> /\ ~effectPending

StoreVars == <<state, queue, effectPending, storage, rootClass, now, phase, events,
               commits, effects, lastWrite, prev, batch, readThrew>>

\* A card has a CardComponent when the search keeps it and a list holds it.
Displayed(cardId) ==
  \E i \in 1..Len(filteredCards(state)) :
    /\ filteredCards(state)[i].id = cardId
    /\ \E j \in 1..Len(state.lists) : state.lists[j].id = filteredCards(state)[i].listId

HasListView(listId) == \E j \in 1..Len(state.lists) : state.lists[j].id = listId

handleDragStart(cardId) ==
  /\ AtRest
  /\ drag.step \in {"idle", "dropped", "cancelled"}
  /\ Displayed(cardId)
  /\ drag' = [step |-> "dragging", cardId |-> cardId, over |-> ""]
  /\ UNCHANGED StoreVars

\* A mutant: the card follows the pointer, it is moved to each list hovered.
handleDragOverMovingCard(listId) ==
  /\ AtRest
  /\ HasListView(listId)
  /\ drag.step = "dragging"
  /\ drag' = [drag EXCEPT !.step = "hoveringList", !.over = listId]
  /\ IF drag.cardId # ""
     THEN reorderCards("null", drag.cardId, listId)
     ELSE UNCHANGED StoreVars

\* The pointer comes over a list, with the card taken at handleDragStart or
\* with something dragged from outside the board.
handleDragOver(listId) ==
  /\ AtRest
  /\ HasListView(listId)
  /\ \/ /\ drag.step = "dragging"
        /\ drag' = [drag EXCEPT !.step = "hoveringList", !.over = listId]
     \/ /\ drag.step \in {"idle", "dropped", "cancelled"}
        /\ drag' = [step |-> "hoveringList", cardId |-> "", over |-> listId]
  /\ UNCHANGED StoreVars

handleDragLeave(listId) ==
  /\ AtRest
  /\ drag.step = "hoveringList"
  /\ drag.over = listId
  /\ drag' = [drag EXCEPT !.step = "dragging", !.over = ""]
  /\ UNCHANGED StoreVars

handleDrop(listId) ==
  /\ AtRest
  /\ drag.step = "hoveringList"
  /\ drag.over = listId
  /\ drag' = [drag EXCEPT !.step = "dropped", !.over = ""]
  /\ IF drag.cardId # ""
     THEN reorderCards("null", drag.cardId, listId)
     ELSE UNCHANGED StoreVars

\* dragend on the card: after the drop, or with the pointer released outside
\* every list.
handleDragEnd ==
  /\ AtRest
  /\ drag.cardId # ""
  /\ \/ /\ drag.step = "dropped"
        /\ drag' = NoDrag
     \/ /\ drag.step = "dragging"
        /\ drag' = [drag EXCEPT !.step = "cancelled"]
  /\ UNCHANGED StoreVars

\* Gestures on the board, and the deletion of a card by another pointer or
\* the keyboard while one is under way.
NextDrag ==
  \/ \E cardId \in DragCardIdInputs : handleDragStart(cardId)
  \/ \E listId \in DropListIdInputs : handleDragOver(listId)
  \/ \E listId \in DropListIdInputs : handleDragLeave(listId)
  \/ \E listId \in DropListIdInputs : handleDrop(listId)
  \/ handleDragEnd
  \/ \E cardId \in DragCardIdInputs : deleteCard(cardId) /\ UNCHANGED drag
  \/ Render
  \/ PersistEffect

SpecDrag == Init /\ [][NextDrag]_vars

\* ------------------------------------------------- the intents of the board
\* What the page can ask of the store, from the seed: a card added in the form
\* of a rendered list, a drop on a rendered list, the save of the edit modal,
\* the delete button of a card, a list added in the form of the board.  The
\* texts are the values of the inputs, spaces included.
FormListIdInputs == {"list-1", ListIdAt(Now0)}
NewCardTitleInputs == {"  ", " Revisar "}
NewListTitleInputs == {" Feito "}

ListWithId(listId) == state.lists[CHOOSE j \in 1..Len(state.lists) : state.lists[j].id = listId]

\* A mutant: the form passes the title of its list where the id belongs.
handleAddCardByListTitle(listId, newCardTitle) ==
  /\ AtRest
  /\ HasListView(listId)
  /\ UNCHANGED drag
  /\ IF trim(newCardTitle) # ""
     THEN addCard(ListWithId(listId).title, trim(newCardTitle), "Adicione uma descricao aqui.")
     ELSE UNCHANGED StoreVars

\* The form of the ListView of list listId is submitted.
handleAddCard(listId, newCardTitle) ==
  /\ AtRest
  /\ HasListView(listId)
  /\ UNCHANGED drag
  /\ IF trim(newCardTitle) # ""
     THEN addCard(ListWithId(listId).id, trim(newCardTitle), "Adicione uma descricao aqui.")
     ELSE UNCHANGED StoreVars

handleAddList(newListTitle) ==
  /\ AtRest
  /\ UNCHANGED drag
  /\ IF trim(newListTitle) # ""
     THEN addList(trim(newListTitle))
     ELSE UNCHANGED StoreVars

\* The edit modal, opened on a card when it was displayed, is submitted.
handleSubmit(cardId, title, description) ==
  /\ AtRest
  /\ UNCHANGED drag
  /\ updateCard(cardId, title, description)

\* The delete button of a displayed card.
onDelete(cardId) ==
  /\ AtRest
  /\ Displayed(cardId)
  /\ UNCHANGED drag
  /\ deleteCard(cardId)

InitBoard ==
  /\ storage = NoItem
  /\ now = Now0
  /\ events = 0
  /\ drag = NoDrag
  /\ Mount(storage, TRUE, Now0)

NextBoard ==
  \/ \E listId \in FormListIdInputs, newCardTitle \in NewCardTitleInputs :
       handleAddCard(listId, newCardTitle)
  \/ \E newListTitle \in NewListTitleInputs : handleAddList(newListTitle)
  \/ \E cardId \in DragCardIdInputs, title \in TitleInputs : handleSubmit(cardId, title, "")
  \/ \E cardId \in DragCardIdInputs : onDelete(cardId)
  \/ \E cardId \in DragCardIdInputs : handleDragStart(cardId)
  \/ \E listId \in FormListIdInputs : handleDragOver(listId)
  \/ \E listId \in FormListIdInputs : handleDragLeave(listId)
  \/ \E listId \in FormListIdInputs : handleDrop(listId)
  \/ handleDragEnd
  \/ Render
  \/ PersistEffect

SpecBoard == InitBoard /\ [][NextBoard]_vars

\* ------------------------------------------------- the last commit, unfolded
\* The state after the first i updates of the last commit's batch.
Step(i) == ApplyQueue(SubSeq(batch, 1, i), prev)

HasCard(st, cardId) == \E j \in 1..Len(st.cards) : st.cards[j].id = cardId

\* The cards a ListView is given when the search term filters nothing out:
\* filteredCards.filter((card) => card.listId === list.id)
Column(st, listId) == SelectSeq(st.cards, LAMBDA card : card.listId = listId)

Committed == phase = "mounted" /\ batch # <<>>

TargetsCard(u) == u.op \in {"setCardList", "updateCard", "deleteCard"}

\* Update i of the last batch names a card that the state it is applied to
\* does not hold.
Unmatched(i) == TargetsCard(batch[i]) /\ ~HasCard(Step(i - 1), batch[i].cardId)

\* ------------------------------------------------------------------ claims

\* C1: after any sequence of addCard and addList calls, also calls made in
\* the same millisecond, no two lists share an id and no two cards share an
\* id.  (The code derives the id from Date.now() alone: refuted.)
C1_IdsUnique ==
  phase = "mounted" =>
    /\ \A i, j \in 1..Len(state.cards) : state.cards[i].id = state.cards[j].id => i = j
    /\ \A i, j \in 1..Len(state.lists) : state.lists[i].id = state.lists[j].id => i = j

\* C2: setCardList, reorderCards, updateCard or deleteCard called with a
\* cardId that matches no card leaves lists and cards as they were, element by
\* element and in the same order, and the commit goes through.
C2_UnmatchedIdIsNoOp ==
  /\ \A i \in 1..Len(batch) :
       Unmatched(i) => /\ Step(i).lists = Step(i - 1).lists
                       /\ Step(i).cards = Step(i - 1).cards
  /\ (batch # <<>> /\ \A i \in 1..Len(batch) : Unmatched(i)) =>
       /\ state.lists = prev.lists
       /\ state.cards = prev.cards
       /\ commits >= 2

C2_Witness ==
  /\ Committed
  /\ \E i \in 1..Len(batch) : Unmatched(i) /\ batch[i].op = "deleteCard"
  /\ \E i \in 1..Len(batch) : Unmatched(i) /\ batch[i].op = "setCardList"
  /\ state.cards = prev.cards

\* C3: the persistence effect runs once for each commit, after it: never ahead
\* of a commit, never left out before the next one, also when the commit
\* applied several operations called back to back; what a run writes is the
\* committed state.
C3_EffectOncePerCommit ==
  /\ effects <= commits
  /\ commits - effects = IF effectPending THEN 1 ELSE 0
  /\ (phase = "mounted" /\ ~effectPending) =>
       lastWrite = "ok" /\ storage = Item(StringifyState(state))

C3_Witness ==
  /\ Committed
  /\ Len(batch) >= 2
  /\ ~effectPending
  /\ commits = 2
  /\ effects = 2

\* C4: a state written by the persistence effect and read back by
\* getInitialState is the state that was written: same lists, cards, theme and
\* searchTerm.
C4_RoundTrip ==
  (phase = "mounted" /\ ~effectPending) =>
    LET loaded == getInitialState(storage, TRUE, now) IN
    /\ DOMAIN loaded = {"lists", "cards", "theme", "searchTerm"}
    /\ loaded = state

C4_Witness ==
  /\ Committed
  /\ ~effectPending
  /\ \E i \in 1..Len(batch) : batch[i].op = "addCard"
  /\ \E i \in 1..Len(batch) : batch[i].op = "setSearchTerm" /\ batch[i].term # ""
  /\ getInitialState(storage, TRUE, now) = state

\* The item cannot be parsed: the key is absent, or holds the empty string or
\* a text JSON.parse rejects.
Unparsable(item) == item = NoItem \/ ~JSONParse(item[1]).ok

\* No effect has run since the page was loaded: the item is the one
\* getInitialState read and prev is what it returned.
JustLoaded == batch = <<>> /\ effects = 0

\* C5: getInitialState returns the seed state (lists list-1..list-3 with
\* orders 0, 1, 2, four cards, theme light, empty searchTerm) when the key is
\* absent, when the read throws and when the text does not parse; otherwise it
\* returns what the text holds.
C5_LoadFallsBackToSeed ==
  JustLoaded =>
    IF readThrew \/ Unparsable(storage)
    THEN /\ prev = SeedState(now)
         /\ [i \in 1..Len(prev.lists) |-> prev.lists[i].id] = <<"list-1", "list-2", "list-3">>
         /\ [i \in 1..Len(prev.lists) |-> prev.lists[i].order] = <<0, 1, 2>>
         /\ Len(prev.cards) = 4
         /\ prev.theme = "light"
         /\ prev.searchTerm = ""
         /\ phase = "mounted"
    ELSE prev = JSONParse(storage[1]).val

C5_Witness ==
  /\ JustLoaded
  /\ ~readThrew
  /\ storage # NoItem
  /\ storage[1] # <<>>
  /\ ~JSONParse(storage[1]).ok
  /\ state = SeedState(now)

\* C6: when the write of the effect that follows an operation fails, the
\* failure is caught: the store stays mounted, keeps the state the operation
\* produced and goes on accepting operations.  (Nothing catches the exception
\* of setItem: refuted.)
C6_WriteFailureIsNotFatal ==
  (lastWrite = "failed" /\ batch # <<>>) =>
    /\ phase = "mounted"
    /\ state = Rendered(ApplyQueue(batch, prev))

\* C7: every addList, also one called right after another before a render,
\* appends one list at the end whose order is the number of lists of the state
\* the call is applied to.  (The order is read from the lists of the last
\* render: refuted.)
C7_AddListOrderIsCount ==
  \A i \in 1..Len(batch) :
    batch[i].op = "addList" =>
      /\ Len(Step(i).lists) = Len(Step(i - 1).lists) + 1
      /\ SubSeq(Step(i).lists, 1, Len(Step(i - 1).lists)) = Step(i - 1).lists
      /\ Step(i).lists[Len(Step(i).lists)].order = Len(Step(i - 1).lists)

\* Update i of the last batch is a setCardList (what reorderCards and a drop
\* queue) for a card the state holds.
Relocates(i) == batch[i].op = "setCardList" /\ HasCard(Step(i - 1), batch[i].cardId)

\* C8: reorderCards / setCardList for an existing card sets that card's listId
\* to the target, so that the card is in the target's column and in no other;
\* every other card is as it was and the number of cards is the same.  From
\* the seed state, moving card-3 to list-3 changes card-3 alone.
C8_RelocateMovesOnlyThatCard ==
  /\ \A i \in 1..Len(batch) :
       Relocates(i) =>
         LET before == Step(i - 1).cards
             after == Step(i).cards
         IN /\ Len(after) = Len(before)
            /\ \A j \in 1..Len(before) :
                 IF before[j].id = batch[i].cardId
                 THEN /\ after[j] = [before[j] EXCEPT !.listId = batch[i].newListId]
                      /\ \A k \in 1..Len(Step(i).lists) :
                           (\E m \in 1..Len(Column(Step(i), Step(i).lists[k].id)) :
                              Column(Step(i), Step(i).lists[k].id)[m] = after[j])
                           <=> Step(i).lists[k].id = batch[i].newListId
                 ELSE after[j] = before[j]
            /\ Step(i).lists = Step(i - 1).lists
  /\ (Committed /\ Len(batch) = 1 /\ Relocates(1)) =>
       /\ Len(state.cards) = Len(prev.cards)
       /\ \A j \in 1..Len(prev.cards) :
            state.cards[j] = IF prev.cards[j].id = batch[1].cardId
                             THEN [prev.cards[j] EXCEPT !.listId = batch[1].newListId]
                             ELSE prev.cards[j]

C8_Witness ==
  /\ Committed
  /\ prev = SeedState(now)
  /\ batch = <<[op |-> "setCardList", cardId |-> "card-3", newListId |-> "list-3"]>>
  /\ prev.cards[3].listId = "list-2"
  /\ state.cards[3].listId = "list-3"
  /\ Len(Column(state, "list-2")) = 0
  /\ Len(Column(state, "list-3")) = 2

\* C9: setCardList(cardId, X) applied twice in a row gives the state it gives
\* applied once, in every state and for every cardId and X.
C9_SetCardListIdempotent ==
  /\ phase = "mounted" =>
       \A cardId \in CardIdInputs, X \in ListIdInputs :
         LET once == setCardListUpdater(state, cardId, X) IN
         setCardListUpdater(once, cardId, X) = once
  /\ \A i \in 2..Len(batch) :
       (batch[i].op = "setCardList" /\ batch[i] = batch[i - 1]) => Step(i) = Step(i - 1)
  /\ (Committed /\ Len(batch) = 2 /\ batch[1].op = "setCardList" /\ batch[2] = batch[1]) =>
       state = Rendered(Step(1))

C9_Witness ==
  /\ Committed
  /\ Len(batch) = 2
  /\ batch[1].op = "setCardList"
  /\ batch[2] = batch[1]
  /\ HasCard(prev, batch[1].cardId)
  /\ Step(1) # prev
  /\ state = Step(1)

\* Update i of the last batch drops a card onto the list it is in already.
DropsOnOwnList(i) ==
  /\ Relocates(i)
  /\ \A j \in 1..Len(Step(i - 1).cards) :
       Step(i - 1).cards[j].id = batch[i].cardId =>
         Step(i - 1).cards[j].listId = batch[i].newListId

\* C10: dropping a card onto the list it belongs to goes through and leaves
\* lists and cards as they were.
C10_DropOnOwnListIsNoOp ==
  /\ \A i \in 1..Len(batch) :
       DropsOnOwnList(i) => /\ Step(i).cards = Step(i - 1).cards
                            /\ Step(i).lists = Step(i - 1).lists
  /\ (batch # <<>> /\ \A i \in 1..Len(batch) : DropsOnOwnList(i)) =>
       /\ state.cards = prev.cards
       /\ state.lists = prev.lists
       /\ commits >= 2

C10_Witness ==
  /\ Committed
  /\ batch = <<[op |-> "setCardList", cardId |-> "card-3", newListId |-> "list-2"]>>
  /\ DropsOnOwnList(1)
  /\ state.cards = prev.cards
  /\ ~effectPending

\* C11: a stale reference neither fails nor brings a card back: once
\* deleteCard(id) has been applied, an updateCard, setCardList, reorderCards or
\* deleteCard for the same id (the save of an edit modal opened before, a drop
\* started before) goes through and no card has that id afterwards.
C11_StaleReferenceIsInert ==
  /\ \A i \in 1..Len(batch) :
       Unmatched(i) => /\ ~HasCard(Step(i), batch[i].cardId)
                       /\ Step(i) = Step(i - 1)
  /\ \A i, j \in 1..Len(batch) :
       (/\ i < j
        /\ batch[i].op = "deleteCard"
        /\ TargetsCard(batch[j])
        /\ batch[j].cardId = batch[i].cardId
        /\ \A k \in i..j : batch[k].op # "addCard")
       => ~HasCard(Step(j), batch[i].cardId)
  /\ (Committed /\ \A i \in 1..Len(batch) : Unmatched(i)) =>
       /\ state = prev
       /\ commits >= 2

\* card-3 was deleted by an earlier commit of a session that began with the
\* seed; the save of the modal that still showed it was committed after.
C11_Witness ==
  /\ Committed
  /\ [j \in 1..Len(prev.cards) |-> prev.cards[j].id] = <<"card-1", "card-2", "card-4">>
  /\ Len(batch) = 1
  /\ batch[1].op = "updateCard"
  /\ batch[1].cardId = "card-3"
  /\ ~HasCard(state, "card-3")
  /\ state = prev

\* C12: addCard(listId, title, description) makes the cards one more, puts the
\* new card after all the cards that were there, gives it the listId, title
\* and description of the call, and leaves every earlier card and all the
\* lists as they were, also when no list has that listId.
C12_AddCardAppendsOne ==
  \A i \in 1..Len(batch) :
    batch[i].op = "addCard" =>
      LET before == Step(i - 1)
          after == Step(i)
          card == after.cards[Len(after.cards)]
      IN /\ Len(after.cards) = Len(before.cards) + 1
         /\ SubSeq(after.cards, 1, Len(before.cards)) = before.cards
         /\ card = batch[i].newCard
         /\ card.listId \in NewCardListIdInputs
         /\ card.title \in TitleInputs
         /\ card.description \in DescriptionInputs
         /\ card.id = CardIdAt(card.createdAt)
         /\ after.lists = before.lists
         /\ after.theme = before.theme
         /\ after.searchTerm = before.searchTerm

\* A card added to "list-0", which no list of the seed board is, was committed.
C12_Witness ==
  /\ Committed
  /\ Len(batch) = 1
  /\ batch[1].op = "addCard"
  /\ \A i \in 1..Len(prev.lists) : prev.lists[i].id # "list-0"
  /\ Len(state.cards) = Len(prev.cards) + 1
  /\ state.cards[Len(state.cards)].listId = "list-0"
  /\ state.cards[Len(state.cards)].title = "Revisar"
  /\ SubSeq(state.cards, 1, Len(prev.cards)) = prev.cards

\* The ids of the cards of a state, in the order of the array.
CardIds(st) == [i \in 1..Len(st.cards) |-> st.cards[i].id]

\* C13: deleteCard(id) removes every card whose id is id and no other card
\* (the others keep their order), and a second deleteCard(id) right after the
\* first leaves the cards, their number and their contents, as they were.
C13_DeleteCardRemovesExactlyThatId ==
  \A i \in 1..Len(batch) :
    batch[i].op = "deleteCard" =>
      LET before == Step(i - 1)
          after == Step(i)
          kept == {j \in 1..Len(before.cards) : before.cards[j].id # batch[i].cardId}
      IN /\ ~HasCard(after, batch[i].cardId)
         /\ Len(after.cards) = Cardinality(kept)
         /\ \A j \in kept :
              after.cards[Cardinality({k \in kept : k <= j})] = before.cards[j]
         /\ after.lists = before.lists
         /\ (i > 1 /\ batch[i - 1] = batch[i]) => after.cards = before.cards

\* card-3 of the seed board was deleted twice in one batch: the first call
\* removed it and nothing else, the second removed nothing.
C13_Witness ==
  /\ Committed
  /\ Len(batch) = 2
  /\ batch[1] = [op |-> "deleteCard", cardId |-> "card-3"]
  /\ batch[2] = batch[1]
  /\ CardIds(prev) = <<"card-1", "card-2", "card-3", "card-4">>
  /\ CardIds(Step(1)) = <<"card-1", "card-2", "card-4">>
  /\ state.cards = Step(1).cards

\* C14: updateCard(cardId, newTitle, newDescription) changes only the title
\* and the description of the card whose id is cardId: its id, listId and
\* createdAt stay, every other card stays, and so do the number and the order
\* of the cards.
C14_UpdateCardChangesOnlyText ==
  \A i \in 1..Len(batch) :
    batch[i].op = "updateCard" =>
      LET before == Step(i - 1)
          after == Step(i)
      IN /\ Len(after.cards) = Len(before.cards)
         /\ \A j \in 1..Len(before.cards) :
              IF before.cards[j].id = batch[i].cardId
              THEN /\ after.cards[j].id = before.cards[j].id
                   /\ after.cards[j].listId = before.cards[j].listId
                   /\ after.cards[j].createdAt = before.cards[j].createdAt
                   /\ after.cards[j].title = batch[i].newTitle
                   /\ after.cards[j].description = batch[i].newDescription
                   /\ DOMAIN after.cards[j] = DOMAIN before.cards[j]
              ELSE after.cards[j] = before.cards[j]
         /\ after.lists = before.lists
         /\ after.theme = before.theme
         /\ after.searchTerm = before.searchTerm

\* The title and the description of card-3 were replaced and committed.
C14_Witness ==
  /\ Committed
  /\ Len(batch) = 1
  /\ batch[1].op = "updateCard"
  /\ \E j \in 1..Len(prev.cards) :
       /\ prev.cards[j].id = "card-3"
       /\ batch[1].cardId = "card-3"
       /\ prev.cards[j].title # "Revisar"
       /\ state.cards[j].title = "Revisar"
       /\ state.cards[j].listId = prev.cards[j].listId
       /\ Len(state.cards) > 1

\* No operation of the store has been called since the store was loaded.
BeforeFirstMutation == batch = <<>> /\ queue = <<>>

C16_ToggleThemeIsInvolution ==
  /\ phase = "mounted" =>
       /\ state.theme \in {"light", "dark"}
       /\ toggleThemeUpdater(state).theme # state.theme
       /\ toggleThemeUpdater(toggleThemeUpdater(state)) = state
  /\ \A i \in 1..Len(batch) :
       /\ Step(i).theme \in {"light", "dark"}
       /\ (i > 1 /\ batch[i].op = "toggleTheme" /\ batch[i - 1].op = "toggleTheme")
            => Step(i) = Step(i - 2)

\* In a session that began with the seed, toggleTheme was called twice in one
\* batch: the theme went to dark and came back to light.
C16_Witness ==
  /\ Committed
  /\ prev = SeedState(Now0)
  /\ batch = <<[op |-> "toggleTheme"], [op |-> "toggleTheme"]>>
  /\ prev.theme = "light"
  /\ Step(1).theme = "dark"
  /\ state.theme = "light"

\* The same letter, in whichever case.
SameLetter(a, b) ==
  \/ a = b
  \/ \E n \in 1..Len(UpperCaseLetters) :
       {a, b} = {SubSeq(UpperCaseLetters, n, n), SubSeq(LowerCaseLetters, n, n)}

\* term occurs in text at some position, letter for letter, the case of the
\* letters disregarded.
OccursIgnoringCase(term, text) ==
  \E i \in 0..(Len(text) - Len(term)) :
    \A k \in 1..Len(term) :
      SameLetter(SubSeq(text, i + k, i + k), SubSeq(term, k, k))

\* C17: the filtered view holds a card if and only if the search term, the
\* case of letters disregarded, is a substring of the card's title or of its
\* description; with the empty search term the view holds every card.
C17_FilterIsCaseInsensitiveSubstring ==
  phase = "mounted" =>
    /\ filteredCards(state) =
         SelectSeq(state.cards, LAMBDA card :
           \/ OccursIgnoringCase(state.searchTerm, card.title)
           \/ OccursIgnoringCase(state.searchTerm, card.description))
    /\ state.searchTerm = "" => filteredCards(state) = state.cards

\* card-3 was rewritten and then searched for "milk": the term is not in its
\* title and is in its description, in capitals, so the view holds the card.
C17_Witness ==
  /\ phase = "mounted"
  /\ state.searchTerm = "milk"
  /\ Len(state.cards) = 1
  /\ state.cards[1].title = "Clean"
  /\ state.cards[1].description = "Get MILK today"
  /\ filteredCards(state) = state.cards

\* C18: reorderCards makes no use of sourceListId: whatever the state, the
\* card and the target list, a call with any source (null, a list, no list at
\* all) is the step that every other source gives and the step of
\* setCardList(cardId, targetListId), so the resulting state is the same.
C18_ReorderCardsIgnoresSource ==
  [][\A sourceListId \in SourceListIdInputs, cardId \in CardIdInputs,
        targetListId \in ListIdInputs :
       reorderCards(sourceListId, cardId, targetListId) =>
         /\ setCardList(cardId, targetListId)
         /\ \A other \in SourceListIdInputs : reorderCards(other, cardId, targetListId)
         /\ ApplyQueue(queue', state) =
              setCardListUpdater(ApplyQueue(queue, state), cardId, targetListId)]_vars

\* reorderCards(source, "card-3", "list-3") was called with one of the sources
\* on the seed board and committed: card-3 went from list-2 to list-3, as by
\* setCardList("card-3", "list-3").
C18_Witness ==
  /\ Committed
  /\ batch = <<[op |-> "setCardList", cardId |-> "card-3", newListId |-> "list-3"]>>
  /\ prev = SeedState(Now0)
  /\ state = setCardListUpdater(prev, "card-3", "list-3")
  /\ state # prev
  /\ "list-0" \in SourceListIdInputs /\ "null" \in SourceListIdInputs

\* C19: in the gesture idle -> dragging -> hoveringList -> dropped | cancelled
\* only the drop touches the store: the start of a drag, the pointer coming
\* over a list or leaving it, and the release outside every list call no
\* operation and leave lists, cards, theme and searchTerm as they were; so
\* does a drop whose data has no card id.  The drop of a card calls
\* setCardList for that card and the list dropped on, once.
C19_OnlyDropCallsTheStore ==
  [][drag' # drag =>
       IF drag'.step = "dropped" /\ drag.cardId # ""
       THEN /\ queue' = Append(queue, [op |-> "setCardList", cardId |-> drag.cardId,
                                       newListId |-> drag.over])
            /\ state' = state
       ELSE /\ queue' = queue
            /\ state' = state
            /\ storage' = storage]_vars

\* card-3 was taken, carried over list-3 and out of it, and released outside
\* every list; the seed board is untouched.
C19_Witness ==
  /\ drag = [step |-> "cancelled", cardId |-> "card-3", over |-> ""]
  /\ phase = "mounted"
  /\ queue = <<>>
  /\ batch = <<>>
  /\ state = SeedState(Now0)

\* C20, as stated: after every committed transition, once its effect has run,
\* the class of the document root is the theme of the state in memory, also
\* when the write of that transition failed.
C20_RootClassIsTheme ==
  (batch # <<>> /\ ~effectPending) => rootClass = state.theme

\* The lists of st, as a set: each list with its id, title, colorVar and order.
ListsOf(st) == {st.lists[j] : j \in 1..Len(st.lists)}

\* C21: lists are never removed or rewritten: through any sequence of
\* operations every list of a state is in every later state with the same id,
\* title, colorVar and order, and the lists never become fewer.
C21_ListsAreKept ==
  ~RenderThrows(prev) =>
    /\ ListsOf(prev) \subseteq ListsOf(state)
    /\ Len(state.lists) >= Len(prev.lists)
    /\ \A i \in 1..Len(batch) :
         /\ SubSeq(Step(i).lists, 1, Len(Step(i - 1).lists)) = Step(i - 1).lists
         /\ Len(Step(i).lists) =
              Len(Step(i - 1).lists) + (IF batch[i].op = "addList" THEN 1 ELSE 0)
    /\ Len(state.lists) = Len(Step(Len(batch)).lists)

\* A list was added to the seed board and a second operation followed in the
\* same batch: the three seed lists are there as they were, before a fourth.
C21_Witness ==
  /\ Committed
  /\ prev = SeedState(Now0)
  /\ Len(batch) = 2
  /\ batch[1].op = "addList"
  /\ batch[2].op = "deleteCard"
  /\ Len(state.lists) = 4
  /\ SubSeq(state.lists, 1, 3) = INITIAL_LISTS

\* C22: computing the filtered and sorted view of the cards never changes the
\* cards of the store: after every render, with any search term, state.cards
\* has the elements the updates gave it, in the same order.
C22_ViewLeavesCardsAlone ==
  ~RenderThrows(prev) => state.cards = Step(Len(batch)).cards

\* The seed board was rendered with an empty search term and then with
\* another: list-1 shows its two cards newest first, the reverse of their order
\* in the store, the search leaves fewer cards than the store has, and the
\* cards of the store are as they were.
C22_Witness ==
  /\ Committed
  /\ prev = SeedState(Now0)
  /\ batch = <<[op |-> "setSearchTerm", term |-> state.searchTerm]>>
  /\ state.searchTerm # ""
  /\ state.cards = prev.cards
  /\ Len(filteredCards(state)) < Len(state.cards)
  /\ Len(filteredCards(state)) > 0
  /\ Len(Column(prev, "list-1")) = 2
  /\ DisplayedCards(prev, "list-1") =
       <<Column(prev, "list-1")[2], Column(prev, "list-1")[1]>>

\* C23, as stated: a render reads the lists and does not write them: for every
\* state, also one adopted from storage with its lists not in ascending
\* order, the sequence of lists of the state after the render is the one it
\* had before.
C23_RenderLeavesListsAlone ==
  ~RenderThrows(prev) => state.lists = Step(Len(batch)).lists

RECURSIVE OneAtATime(_, _)
\* The calls of q made one at a time: each is rendered and committed before
\* the next is made.
OneAtATime(q, st) ==
  IF q = <<>> THEN st ELSE OneAtATime(Tail(q), Rendered(ApplyUpdate(Head(q), st)))

\* C24: operations called back to back in one event, before the store renders
\* again, are applied each to the result of the one before, in the order of
\* the calls, and none is lost: for a batch of addCard, updateCard, deleteCard,
\* setCardList, toggleTheme and setSearchTerm calls the cards, theme and
\* searchTerm that result are those of the calls made one at a time.
C24_BatchEqualsOneAtATime ==
  (~RenderThrows(prev) /\ \A i \in 1..Len(batch) : batch[i].op # "addList") =>
    LET serial == OneAtATime(batch, Rendered(prev))
    IN /\ state.cards = serial.cards
       /\ state.theme = serial.theme
       /\ state.searchTerm = serial.searchTerm

\* A card was added to list-3 and, in the same batch, moved to list-2 through
\* the id it had just got: the second call found the card the first had put
\* there.
C24_Witness ==
  /\ Committed
  /\ Len(batch) = 2
  /\ batch[1].op = "addCard"
  /\ batch[1].newCard.listId = "list-3"
  /\ batch[2] = [op |-> "setCardList", cardId |-> batch[1].newCard.id, newListId |-> "list-2"]
  /\ ~HasCard(prev, batch[2].cardId)
  /\ Len(state.cards) = Len(prev.cards) + 1
  /\ state.cards[Len(state.cards)] = [batch[1].newCard EXCEPT !.listId = "list-2"]

\* C25: from the seed, with the intents the page can emit only (a card added
\* on a rendered list, a drop on a rendered list, edit, delete, a list added),
\* the listId of every card is the id of a list of lists in every state.
C25_CardsPointAtLists ==
  /\ \A i \in 1..Len(state.cards) : HasListView(state.cards[i].listId)
  /\ \A n \in 0..Len(batch) :
       \A i \in 1..Len(Step(n).cards) :
         \E j \in 1..Len(Step(n).lists) : Step(n).lists[j].id = Step(n).cards[i].listId

\* A list was added in the form of the board and, once it was rendered, a card
\* was added in its form: the card points at the new list.
C25_Witness ==
  /\ Committed
  /\ Len(state.lists) = 4
  /\ state.lists[4].id = ListIdAt(Now0)
  /\ state.lists[4].title = "Feito"
  /\ Len(state.cards) = 5
  /\ state.cards[5].listId = ListIdAt(Now0)
  /\ state.cards[5].title = "Revisar"

\* The lists in whose column a card is shown.
ColumnsOf(st, card) == {j \in 1..Len(st.lists) : st.lists[j].id = card.listId}

\* C26, as stated: in every state reached from the seed, with an empty search
\* term, each card is displayed in exactly one column: exactly one list of
\* lists has the id that is the card's listId.
C26_OneColumnPerCard ==
  (phase = "mounted" /\ state.searchTerm = "") =>
    \A i \in 1..Len(state.cards) : Cardinality(ColumnsOf(state, state.cards[i])) = 1

\* C27: when no write fails, once every pending event and effect has been
\* processed the item under the key is the serialization of the whole state in
\* memory, lists, cards, theme and searchTerm together, never a part of it
\* or an older snapshot.
C27_StoredItemIsCurrentState ==
  AtRest =>
    /\ lastWrite = "ok"
    /\ storage = Item(StringifyState(state))
    /\ DOMAIN JSONParse(storage[1]).val = {"lists", "cards", "theme", "searchTerm"}

\* Two operations of one batch changed the cards and the theme; after the
\* effect the item is the serialization of the new state, not of the old.
C27_Witness ==
  /\ AtRest
  /\ Len(batch) = 2
  /\ state.cards # prev.cards
  /\ state.theme # prev.theme
  /\ storage = Item(StringifyState(state))
  /\ storage # Item(StringifyState(prev))

\* C28: toggleTheme and setSearchTerm leave lists and cards as they were;
\* setSearchTerm(term) stores term as it is given (nothing trimmed, the empty
\* string allowed) and leaves theme as it was; toggleTheme leaves searchTerm
\* as it was.
C28_ThemeAndSearchFrame ==
  \A i \in 1..Len(batch) :
    LET before == Step(i - 1)
        after == Step(i)
    IN /\ batch[i].op = "toggleTheme" =>
            after = [before EXCEPT !.theme = after.theme]
       /\ batch[i].op = "setSearchTerm" =>
            /\ after.searchTerm = batch[i].term
            /\ Len(after.searchTerm) = Len(batch[i].term)
            /\ after = [before EXCEPT !.searchTerm = batch[i].term]

\* A term with a space at each end was set and the theme toggled in the same
\* batch: the term is stored with its spaces, the toggle left it there, and
\* neither touched the cards or the lists.
C28_Witness ==
  /\ Committed
  /\ batch = <<[op |-> "setSearchTerm", term |-> " DRAG "], [op |-> "toggleTheme"]>>
  /\ prev.searchTerm = ""
  /\ state.searchTerm = " DRAG "
  /\ Len(state.searchTerm) = 6
  /\ state.theme # prev.theme
  /\ state.cards = prev.cards
  /\ state.lists = prev.lists

====
